---- MODULE Spec2Model ----
(***************************************************************************)
(* Model of glow's torch_glow ShapeInferenceEngine                         *)
(* (src/torch_glow/src/ShapeInferenceEngine.cpp): the engine facade        *)
(* (run, getGraphInputShape, generateGraphOutputShape), the recursive      *)
(* graph walker (runRecursively), the operator dispatcher (shapeOnNode)    *)
(* and the shape functions.                                                *)
(*                                                                         *)
(* Values are numbered; a VariableMeta is a record                         *)
(*   [listOfShape |-> sequence of ElemShape, intValue |-> sequence of int] *)
(* and an ElemShape is [tag, shape, shapes]: tag "TensorShape" uses        *)
(* shape, tag "TensorListShape" uses shapes.  C++ indices are 0-based, the *)
(* sequences here are 1-based.                                             *)
(***************************************************************************)
EXTENDS Integers, Sequences, FiniteSets, TLC

VARIABLES
    graph_,        \* the top-level graph the engine was constructed with
    inputs_,       \* the example inputs the engine was constructed with
    shapeMap_,     \* Value -> VariableMeta (a function on the Values stored)
    outputShape_,  \* the MetaStack returned by getGraphOutputShape()
    status,        \* "idle" | "running" | "ok" | "error" | "threw" | "undefined"
    result,        \* the Error run() returned (NoErr on success)
    stack,         \* the runRecursively() frames, innermost last
    dispatched,    \* nodes handed to shapeOnNode() by the current run, in order
    failedAt,      \* the frames that were open when a node made the run fail
    runs,          \* number of run() calls started on this engine
    opName,        \* shape function applied on its own (pure-function specs)
    opIn,          \* its MetaStack
    opOut          \* its outcome, NoOut before it is applied

vars == <<graph_, inputs_, shapeMap_, outputShape_, status, result, stack,
          dispatched, failedAt, runs, opName, opIn, opOut>>

engineVars == <<graph_, inputs_, shapeMap_, outputShape_, status, result,
                stack, dispatched, failedAt, runs>>

opVars == <<opName, opIn, opOut>>

----------------------------------------------------------------------------
(* Bounds of the model *)

\* run() calls made on one engine
MaxRuns == 2
\* largest extent of an example tensor handed to a shape function on its own
MaxExtent == 3
\* largest rank of such a tensor
MaxRank == 3
\* largest rank of the tensor handed to reshape on its own
MaxReshapeRank == 2
\* longest reshape target
MaxTarget == 2
\* most example inputs an engine is constructed with
MaxInputs == 2

\* the largest chunk count tried
MaxChunks == 3

\* the largest rank of a tensor that is split or sliced
MaxSplitRank == 2

\* the largest absolute value of a slice start or end tried
MaxIndex == 4

\* the largest slice step tried
MaxStep == 2

\* the longest list of tensors concatenated, and their largest extent
MaxList == 3

MaxConcatExtent == 2

----------------------------------------------------------------------------
(* Arithmetic helpers: C++ integer division and remainder truncate *)

Abs(x) == IF x < 0 THEN -x ELSE x

Max(a, b) == IF a >= b THEN a ELSE b

Min(a, b) == IF a <= b THEN a ELSE b

\* a / b on int64_t, b # 0
TruncDiv(a, b) ==
    IF (a >= 0) = (b > 0) THEN Abs(a) \div Abs(b) ELSE -(Abs(a) \div Abs(b))

\* a % b on int64_t, b # 0: the sign follows the dividend
TruncMod(a, b) == a - b * TruncDiv(a, b)

RECURSIVE Product(_)
Product(s) == IF s = <<>> THEN 1 ELSE Head(s) * Product(Tail(s))

\* sequences over S of length lo..hi
SeqsOf(S, lo, hi) == UNION {[1..n -> S] : n \in lo..hi}

----------------------------------------------------------------------------
(* Errors and shape-function outcomes *)

NoErr == [msg |-> "", args |-> <<>>]

\* MAKE_ERR(strFormat(msg, args...))
MakeErr(m, a) == [msg |-> m, args |-> a]

\* Expected<T> holding a value: the shapes land in outputShapesOrValues
Ok(shapes) == [kind |-> "ok", out |-> shapes, err |-> NoErr]

\* Expected<T> holding an Error
Fail(m, a) == [kind |-> "err", out |-> <<>>, err |-> MakeErr(m, a)]

\* a C++ exception leaving the function (VariableMeta::shape<T>() on an
\* entry of the other alternative, at::maybe_wrap_dim on a dimension out of
\* range)
Throw == [kind |-> "throw", out |-> <<>>, err |-> NoErr]

\* undefined behaviour: an element read or written outside a vector, or an
\* integer division by zero
Undefined == [kind |-> "ub", out |-> <<>>, err |-> NoErr]

NoOut == [kind |-> "none", out |-> <<>>, err |-> NoErr]

----------------------------------------------------------------------------
(* VariableMeta *)

TS(s) == [tag |-> "TensorShape", shape |-> s, shapes |-> <<>>]

TLS(ss) == [tag |-> "TensorListShape", shape |-> <<>>, shapes |-> ss]

Meta(entries, ints) == [listOfShape |-> entries, intValue |-> ints]

\* a default-constructed VariableMeta, what shapeMap_[v] creates
EmptyMeta == Meta(<<>>, <<>>)

\* whether meta.shape<TensorShape>() returns (the first entry holds a
\* single shape)
IsTensorShape(meta) ==
    /\ Len(meta.listOfShape) >= 1
    /\ meta.listOfShape[1].tag = "TensorShape"

IsTensorListShape(meta) ==
    /\ Len(meta.listOfShape) >= 1
    /\ meta.listOfShape[1].tag = "TensorListShape"

\* meta.shape<TensorShape>()
ShapeOf(meta) == meta.listOfShape[1].shape

\* meta.shape<TensorListShape>()
ShapesOf(meta) == meta.listOfShape[1].shapes

\* shapeMap_[v] as an lvalue: the stored record, or a fresh one
MetaAt(map, v) == IF v \in DOMAIN map THEN map[v] ELSE EmptyMeta

\* map with v bound to meta
Store(map, v, meta) == [w \in (DOMAIN map) \cup {v} |-> IF w = v THEN meta ELSE map[w]]

\* shapeMap_[v].listOfShape.emplace_back(entry)
EmplaceShape(map, v, entry) ==
    Store(map, v, [MetaAt(map, v) EXCEPT !.listOfShape = Append(@, entry)])

\* shapeMap_[v].intValue = ints
AssignInt(map, v, ints) ==
    Store(map, v, [MetaAt(map, v) EXCEPT !.intValue = ints])

----------------------------------------------------------------------------
(* Example input values (at::IValue) *)

IVal(k, sz, iv) == [kind |-> k, sizes |-> sz, ints |-> iv]

Tensor(sz) == IVal("Tensor", sz, <<>>)

IntVal(i) == IVal("Int", <<>>, <<i>>)

BoolVal(b) == IVal("Bool", <<>>, <<IF b THEN 1 ELSE 0>>)

IntListVal(l) == IVal("IntList", <<>>, l)

DoubleVal == IVal("Double", <<>>, <<>>)

\* input.toInt(): the integer held by an int or bool example value
toInt(input) == input.ints[1]

\* torch::empty(shape, options): a tensor with these sizes
TorchEmpty(shape) == Tensor(shape)

----------------------------------------------------------------------------
(* The graphs.  A Node has a kind, input and output Values, the id of its   *)
(* Subgraph attribute (0: none), the declared type of its output (element   *)
(* type for a list), for prim::Constant its value attribute, and the dim    *)
(* and chunks attributes the fused and constant-chunk kinds read.           *)

Node(k, ins, outs) ==
    [kind |-> k, inputs |-> ins, outputs |-> outs, subgraph |-> 0,
     type |-> "Tensor", value |-> <<>>, dim |-> 0, chunks |-> 0]

\* a fusion node: its kind starts with fusionNodeSymbol_ and it carries a
\* Subgraph
Fusion(ins, outs, g) ==
    [Node("glow::FusionGroup", ins, outs) EXCEPT !.subgraph = g]

Constant(out, ty, val) ==
    [Node("prim::Constant", <<>>, <<out>>) EXCEPT !.type = ty, !.value = val]

ListConstructNode(ins, out, elemTy) ==
    [Node("prim::ListConstruct", ins, <<out>>) EXCEPT !.type = elemTy]

Graph(ins, ns, outs) == [inputs |-> ins, nodes |-> ns, outputs |-> outs]

\* 1: x, y -> FusionGroup(x, y) -> relu;  2: its subgraph, mm(x, y)
\* 3: a fusion node nested twice (4 inside 3, 5 inside 4), then add
\* 6: an operator outside the catalog between two relu
\* 7: reshape by an int-list input, then add(const 1)
\* 8: a tensor list fed to a fusion node;  9: its subgraph
\* 10: a list of two Values constructed and unpacked again;  12: of one
\* 11: an int list constructed from a constant and an input
Graphs ==
    << Graph(<<1, 2>>,
             << Fusion(<<1, 2>>, <<3>>, 2), Node("aten::relu", <<3>>, <<4>>) >>,
             <<4>>),
       Graph(<<5, 6>>, << Node("aten::mm", <<5, 6>>, <<7>>) >>, <<7>>),
       Graph(<<8, 9>>,
             << Fusion(<<8, 9>>, <<10>>, 4),
                Node("aten::add", <<10, 9>>, <<11>>) >>,
             <<11>>),
       Graph(<<12, 13>>,
             << Node("aten::relu", <<12>>, <<14>>),
                Fusion(<<14, 13>>, <<15>>, 5),
                Node("aten::tanh", <<15>>, <<16>>) >>,
             <<16>>),
       Graph(<<17, 18>>, << Node("aten::add", <<17, 18>>, <<19>>) >>, <<19>>),
       Graph(<<21>>,
             << Node("aten::relu", <<21>>, <<22>>),
                Node("aten::foo", <<22>>, <<23>>),
                Node("aten::relu", <<23>>, <<24>>) >>,
             <<24>>),
       Graph(<<25, 26>>,
             << Node("aten::reshape", <<25, 26>>, <<27>>),
                Constant(28, "Int", <<1>>),
                Node("aten::add", <<27, 28>>, <<29>>) >>,
             <<29, 25>>),
       Graph(<<30>>,
             << ListConstructNode(<<30, 30>>, 31, "Tensor"),
                Fusion(<<31>>, <<32>>, 9) >>,
             <<32>>),
       Graph(<<33>>, << Node("aten::relu", <<33>>, <<34>>) >>, <<34>>),
       Graph(<<35, 36>>,
             << ListConstructNode(<<35, 36>>, 37, "Tensor"),
                Node("prim::ListUnpack", <<37>>, <<38, 39>>) >>,
             <<38, 39>>),
       Graph(<<40>>,
             << Constant(41, "Int", <<2>>),
                ListConstructNode(<<41, 40>>, 42, "Int") >>,
             <<42>>),
       Graph(<<44>>,
             << ListConstructNode(<<44>>, 45, "Tensor"),
                Node("prim::ListUnpack", <<45>>, <<46>>) >>,
             <<46>>) >>

\* the graphs an engine is constructed with
TopGraphs == {1, 3, 6, 7, 8, 10, 11, 12}

\* the example values an engine is constructed with
ExampleValues ==
    { Tensor(<<4, 5>>), Tensor(<<5, 6>>), IntVal(3), BoolVal(TRUE),
      IntListVal(<<2, -1>>), IntListVal(<<3, 2>>), DoubleVal }

----------------------------------------------------------------------------
(* Shape functions.  Each takes the MetaStack of a node (variableMetas) and *)
(* returns Ok(shapes), Fail(message, arguments) or Throw.                   *)

\* values an out-of-bounds read of a shape vector may give
Garbage == {1, 33}

\* aten::tanh, aten::relu, aten::sigmoid
unaryOp(variableMetas) ==
    IF Len(variableMetas) # 1
    THEN Fail("Expected 1 input shape for operators.", <<>>)
    ELSE IF ~IsTensorShape(variableMetas[1]) THEN Throw
    ELSE Ok(<<ShapeOf(variableMetas[1])>>)

\* binaryOp when the second operand has rank 1: the first shape as it is
binaryOpScalar(t0, t1) == Ok(<<t0>>)

\* the extent binaryOp writes at loop index i (position dim - 1 - i);
\* t1[d1 + j] is read although t1 is exhausted when t0's extent is 1, and
\* that read gives g
binaryOpExtent(t0, t1, i, g) ==
    LET d0 == Len(t0)
        d1 == Len(t1)
    IN  IF i >= d0 \/ t0[d0 - i] = 1
        THEN IF i < d1 THEN t1[d1 - i] ELSE g
        ELSE IF i >= d1 \/ t1[d1 - i] = 1
        THEN t0[d0 - i]
        ELSE t1[d1 - i]

\* whether loop index i of binaryOp returns the size-mismatch error
binaryOpMismatch(t0, t1, i) ==
    LET d0 == Len(t0)
        d1 == Len(t1)
    IN  /\ ~(i >= d0 \/ t0[d0 - i] = 1)
        /\ ~(i >= d1 \/ t1[d1 - i] = 1)
        /\ t1[d1 - i] # t0[d0 - i]

\* aten::add, aten::sub, aten::mul, aten::pow
binaryOp(variableMetas, g) ==
    IF Len(variableMetas) # 2 /\ Len(variableMetas) # 3
    THEN Fail("Expected two or three inputs shapes of this operation.", <<>>)
    ELSE IF ~IsTensorShape(variableMetas[1]) \/ ~IsTensorShape(variableMetas[2])
    THEN Throw
    ELSE
    LET t0 == ShapeOf(variableMetas[1])
        t1 == ShapeOf(variableMetas[2])
        d0 == Len(t0)
        d1 == Len(t1)
        dim == Max(d0, d1)
        bad == {i \in 0..(dim - 1) : binaryOpMismatch(t0, t1, i)}
    IN  IF d1 = 1 THEN binaryOpScalar(t0, t1)
        ELSE IF bad # {}
        THEN LET i == CHOOSE k \in bad : \A m \in bad : k <= m
             IN  Fail("The size of tensor a (%zu) must match the size of tensor b (%zu)at non-singleton dimension 1.",
                      <<t0[d0 - i], t1[d1 - i]>>)
        ELSE Ok(<<[k \in 1..dim |-> binaryOpExtent(t0, t1, dim - k, g)]>>)

\* aten::mm
mm(variableMetas) ==
    IF Len(variableMetas) # 2
    THEN Fail("Expected two inputs shapes of this operation.", <<>>)
    ELSE IF ~IsTensorShape(variableMetas[1]) \/ ~IsTensorShape(variableMetas[2])
    THEN Throw
    ELSE
    LET t0 == ShapeOf(variableMetas[1])
        t1 == ShapeOf(variableMetas[2])
    IN  IF ~(Len(t1) = 2 /\ Len(t0) = 2)
        THEN Fail("Expected 2-dimensional tensor.", <<>>)
        ELSE IF t0[2] # t1[1]
        THEN Fail("The size of tensor a (%zu) at dimension 1 must match the size of tensor b (%zu) at dimension 0.",
                  <<t0[2], t1[1]>>)
        ELSE Ok(<< <<t0[1], t1[2]>> >>)

\* at::maybe_wrap_dim(dim, n): the range is that of rank 1 when n <= 0
WrapRank(n) == IF n <= 0 THEN 1 ELSE n

\* whether maybe_wrap_dim returns (it throws outside [-n, n - 1])
WrapOk(dim, n) == dim >= -WrapRank(n) /\ dim <= WrapRank(n) - 1

maybe_wrap_dim(dim, n) == IF dim < 0 THEN dim + WrapRank(n) ELSE dim

\* s with the elements at 0-based positions a and b exchanged
SwapAt(s, a, b) == [s EXCEPT ![a + 1] = s[b + 1], ![b + 1] = s[a + 1]]

\* s.insert(s.begin() + at, x)
InsertAt(s, at, x) == SubSeq(s, 1, at) \o <<x>> \o SubSeq(s, at + 1, Len(s))

\* aten::bmm
bmm(variableMetas) ==
    IF Len(variableMetas) # 2
    THEN Fail("Expected two inputs shapes of this operation.", <<>>)
    ELSE IF ~IsTensorShape(variableMetas[1]) \/ ~IsTensorShape(variableMetas[2])
    THEN Throw
    ELSE
    LET t0 == ShapeOf(variableMetas[1])
        t1 == ShapeOf(variableMetas[2])
    IN  IF ~(Len(t0) = 3 /\ Len(t1) = 3)
        THEN Fail("Expected 3-dimensional tensor.", <<>>)
        ELSE IF t0[1] # t1[1]
        THEN Fail("Expected tensors to have same size at dimension 0", <<>>)
        ELSE IF t0[3] # t1[2]
        THEN Fail("The size of tensor a (%zu) at dimension 2 mustmatch the size of tensor b (%zu) at dimension 1",
                  <<t0[3], t1[2]>>)
        ELSE Ok(<< <<t0[1], t0[2], t1[3]>> >>)

\* aten::addmm
addmm(variableMetas, g) ==
    IF ~(Len(variableMetas) >= 3)
    THEN Fail("Expected at least three inputs shapes, got %zu.", <<Len(variableMetas)>>)
    ELSE IF ~IsTensorShape(variableMetas[3]) THEN Throw
    ELSE IF Len(ShapeOf(variableMetas[3])) = 1
    THEN binaryOp(<<variableMetas[1], variableMetas[2]>>, g)
    ELSE LET s == mm(<<variableMetas[2], variableMetas[3]>>)
         IN  IF s.kind # "ok" THEN s
             ELSE binaryOp(<<variableMetas[1], Meta(<<TS(s.out[1])>>, <<>>)>>, g)

\* aten::t
t(variableMetas) ==
    IF Len(variableMetas) # 1
    THEN Fail("Expected one input, got %zu.", <<Len(variableMetas)>>)
    ELSE IF ~IsTensorShape(variableMetas[1]) THEN Throw
    ELSE
    LET t0 == ShapeOf(variableMetas[1])
        d0 == Len(t0)
    IN  IF d0 = 1 THEN Ok(<<t0>>)
        ELSE IF d0 = 2 THEN Ok(<< <<t0[2], t0[1]>> >>)
        ELSE Fail("Expected tensor <= 2-D, got %zu-D.", <<d0>>)

\* aten::transpose
transpose(variableMetas) ==
    IF Len(variableMetas) # 3
    THEN Fail("Expect 3 inputs, get %zu", <<Len(variableMetas)>>)
    ELSE IF Len(variableMetas[2].intValue) # 1 \/ Len(variableMetas[3].intValue) # 1
    THEN Fail("Expect 1 int dimension", <<>>)
    ELSE IF ~IsTensorShape(variableMetas[1]) THEN Throw
    ELSE
    LET shape == ShapeOf(variableMetas[1])
        inDims == Len(shape)
        dim0 == variableMetas[2].intValue[1]
        dim1 == variableMetas[3].intValue[1]
    IN  IF ~WrapOk(dim0, inDims) \/ ~WrapOk(dim1, inDims) THEN Throw
        ELSE IF inDims = 0 THEN Undefined
        ELSE Ok(<<SwapAt(shape, maybe_wrap_dim(dim0, inDims),
                         maybe_wrap_dim(dim1, inDims))>>)

\* the first (i, j) at which cat and fusedConcat return an error for the
\* shapes ss and the wrapped dim: j = -1 is the rank check of element i
ConcatFaults(ss, dim) ==
    { <<i, j>> \in (2..Len(ss)) \X (-1..(Len(ss[1]) - 1)) :
        \/ j = -1 /\ Len(ss[i]) # Len(ss[1])
        \/ /\ j >= 0
           /\ j # dim
           /\ Len(ss[i]) = Len(ss[1])
           /\ ss[1][j + 1] # ss[i][j + 1] }

\* the shape both build when no check fails: the extents at dim summed
RECURSIVE SumAt(_, _, _)
SumAt(ss, dim, i) ==
    IF i > Len(ss) THEN 0 ELSE ss[i][dim + 1] + SumAt(ss, dim, i + 1)

ConcatShape(ss, dim) == [ss[1] EXCEPT ![dim + 1] = SumAt(ss, dim, 1)]

\* the error of the first failing check, going through i and then j
ConcatError(ss, dim) ==
    LET faults == ConcatFaults(ss, dim)
        first == CHOOSE f \in faults :
                     \A h \in faults :
                         f[1] < h[1] \/ (f[1] = h[1] /\ f[2] <= h[2])
    IN  IF first[2] = -1
        THEN Fail("All inputs must have the same number of dimensions.", <<>>)
        ELSE Fail("Sizes of tensors must match except in dimension %zu.", <<dim>>)

\* aten::cat
cat(variableMetas) ==
    IF Len(variableMetas) # 2
    THEN Fail("Expected 2 inputs, got %zu.", <<Len(variableMetas)>>)
    ELSE IF ~IsTensorListShape(variableMetas[1]) THEN Throw
    ELSE
    LET tensorListShapes == ShapesOf(variableMetas[1])
    IN  IF Len(tensorListShapes) = 0 THEN Undefined
        ELSE IF Len(tensorListShapes) = 1 THEN Ok(<<tensorListShapes[1]>>)
        ELSE IF Len(variableMetas[2].intValue) = 0 THEN Undefined
        ELSE
        LET inDims == Len(tensorListShapes[1])
            rawDim == variableMetas[2].intValue[1]
            dim == maybe_wrap_dim(rawDim, inDims)
        IN  IF ~WrapOk(rawDim, inDims) THEN Throw
            ELSE IF ConcatFaults(tensorListShapes, dim) # {}
            THEN ConcatError(tensorListShapes, dim)
            ELSE IF inDims = 0 THEN Undefined
            ELSE Ok(<<ConcatShape(tensorListShapes, dim)>>)

\* prim::FusedConcat: each further input is read, then checked, in turn
fusedConcat(variableMetas, rawDim) ==
    IF ~(Len(variableMetas) >= 1)
    THEN Fail("Expected at least 1 inputs, got %zu.", <<Len(variableMetas)>>)
    ELSE IF ~IsTensorShape(variableMetas[1]) THEN Throw
    ELSE IF Len(variableMetas) = 1 THEN Ok(<<ShapeOf(variableMetas[1])>>)
    ELSE
    LET inDims == Len(ShapeOf(variableMetas[1]))
        dim == maybe_wrap_dim(rawDim, inDims)
        notShape == {i \in 2..Len(variableMetas) : ~IsTensorShape(variableMetas[i])}
        readable == IF notShape = {} THEN Len(variableMetas)
                    ELSE (CHOOSE i \in notShape : \A k \in notShape : i <= k) - 1
        ss == [i \in 1..readable |-> ShapeOf(variableMetas[i])]
    IN  IF ~WrapOk(rawDim, inDims) THEN Throw
        ELSE IF ConcatFaults(ss, dim) # {} THEN ConcatError(ss, dim)
        ELSE IF notShape # {} THEN Throw
        ELSE IF inDims = 0 THEN Ok(<<ss[1]>>)
        ELSE Ok(<<ConcatShape(ss, dim)>>)

\* aten::flatten
flatten(variableMetas) ==
    IF Len(variableMetas) # 3
    THEN Fail("Expect 3 inputs, get %zu", <<Len(variableMetas)>>)
    ELSE IF Len(variableMetas[2].intValue) # 1 \/ Len(variableMetas[3].intValue) # 1
    THEN Fail("Expect 1 int dimension", <<>>)
    ELSE IF ~IsTensorShape(variableMetas[1]) THEN Throw
    ELSE
    LET tt == ShapeOf(variableMetas[1])
        inDims == Len(tt)
        rawStart == variableMetas[2].intValue[1]
        rawEnd == variableMetas[3].intValue[1]
        startDim == maybe_wrap_dim(rawStart, inDims)
        endDim == maybe_wrap_dim(rawEnd, inDims)
    IN  IF ~WrapOk(rawStart, inDims) \/ ~WrapOk(rawEnd, inDims) THEN Throw
        ELSE IF startDim > endDim
        THEN Fail("start dimension should not be larger than end dimension", <<>>)
        ELSE IF inDims = 0 THEN Undefined
        ELSE Ok(<<SubSeq(tt, 1, startDim)
                  \o <<Product(SubSeq(tt, startDim + 1, endDim + 1))>>
                  \o SubSeq(tt, endDim + 2, inDims)>>)

\* the split with the common extent rounded down instead of up
chunkShapesFloor(tt, chunks, dim) ==
    LET c == TruncDiv(tt[dim + 1], chunks)
        r == tt[dim + 1] - c * (chunks - 1)
    IN  [i \in 1..chunks |-> [tt EXCEPT ![dim + 1] = IF i = chunks THEN r ELSE c]]

\* the list of shapes constantChunk and chunk build
chunkShapes(tt, chunks, dim) ==
    LET c == TruncDiv(tt[dim + 1] + chunks - 1, chunks)
        r == tt[dim + 1] - c * (chunks - 1)
    IN  [i \in 1..chunks |-> [tt EXCEPT ![dim + 1] = IF i = chunks THEN r ELSE c]]

\* prim::ConstantChunk
constantChunk(variableMetas, chunks, rawDim) ==
    IF Len(variableMetas) # 1
    THEN Fail("Expected one input, got %zu.", <<Len(variableMetas)>>)
    ELSE IF ~IsTensorShape(variableMetas[1]) THEN Throw
    ELSE
    LET tt == ShapeOf(variableMetas[1])
        inDims == Len(tt)
    IN  IF ~WrapOk(rawDim, inDims) THEN Throw
        ELSE IF inDims = 0 \/ chunks = 0 THEN Undefined
        ELSE Ok(chunkShapes(tt, chunks, maybe_wrap_dim(rawDim, inDims)))

\* aten::chunk
chunk(variableMetas) ==
    IF Len(variableMetas) # 3
    THEN Fail("Expected one input, got %zu.", <<Len(variableMetas)>>)
    ELSE IF ~IsTensorShape(variableMetas[1]) THEN Throw
    ELSE IF Len(variableMetas[2].intValue) = 0 \/ Len(variableMetas[3].intValue) = 0
    THEN Undefined
    ELSE
    LET tt == ShapeOf(variableMetas[1])
        chunks == variableMetas[2].intValue[1]
        rawDim == variableMetas[3].intValue[1]
        inDims == Len(tt)
    IN  IF ~WrapOk(rawDim, inDims) THEN Throw
        ELSE IF inDims = 0 \/ chunks = 0 THEN Undefined
        ELSE Ok(chunkShapes(tt, chunks, maybe_wrap_dim(rawDim, inDims)))

\* the extent left at dim with the division rounded down
sliceExtentFloor(inDims, start0, end0, step) ==
    IF start0 >= inDims \/ end0 <= -inDims THEN 0
    ELSE
    LET start == IF start0 <= -inDims THEN 0
                 ELSE IF start0 > -inDims /\ start0 < 0 THEN start0 + inDims
                 ELSE start0
        end == IF end0 > inDims THEN inDims
               ELSE IF end0 > -inDims /\ end0 < 0 THEN end0 + inDims
               ELSE end0
    IN  IF start >= end THEN 0
        ELSE TruncDiv(end - start, step)

\* aten::slice: the extent left at dim
sliceExtent(inDims, start0, end0, step) ==
    IF start0 >= inDims \/ end0 <= -inDims THEN 0
    ELSE
    LET start == IF start0 <= -inDims THEN 0
                 ELSE IF start0 > -inDims /\ start0 < 0 THEN start0 + inDims
                 ELSE start0
        end == IF end0 > inDims THEN inDims
               ELSE IF end0 > -inDims /\ end0 < 0 THEN end0 + inDims
               ELSE end0
    IN  IF start >= end THEN 0
        ELSE TruncDiv(end - start, step)
             + (IF TruncMod(end - start, step) # 0 THEN 1 ELSE 0)

\* aten::slice
slice(variableMetas) ==
    IF Len(variableMetas) # 5
    THEN Fail("Expected 5 inputs, got %zu.", <<Len(variableMetas)>>)
    ELSE IF \E i \in 2..5 : Len(variableMetas[i].intValue) # 1
    THEN Fail("Expected int in Slice.", <<>>)
    ELSE IF ~IsTensorShape(variableMetas[1]) THEN Throw
    ELSE
    LET dim == variableMetas[2].intValue[1]
        start == variableMetas[3].intValue[1]
        end == variableMetas[4].intValue[1]
        step == variableMetas[5].intValue[1]
        shape == ShapeOf(variableMetas[1])
    IN  IF dim < 0 \/ dim >= Len(shape) THEN Undefined
        ELSE IF start >= shape[dim + 1] \/ end <= -shape[dim + 1]
        THEN Ok(<<[shape EXCEPT ![dim + 1] = 0]>>)
        ELSE IF step = 0
                /\ sliceExtent(shape[dim + 1], start, end, 1) # 0
        THEN Undefined
        ELSE Ok(<<[shape EXCEPT ![dim + 1] =
                      sliceExtent(shape[dim + 1], start, end,
                                  IF step = 0 THEN 1 ELSE step)]>>)

\* permute with the checks kept and the extents left where they are
permuteIdentity(variableMetas) ==
    IF Len(variableMetas) # 2
    THEN Fail("Expected two inputs shapes, got %zu.", <<Len(variableMetas)>>)
    ELSE IF ~IsTensorShape(variableMetas[1]) THEN Throw
    ELSE
    LET tt == ShapeOf(variableMetas[1])
        inDims == Len(tt)
        order == variableMetas[2].intValue
        faults == {i \in 1..Len(order) : order[i] < 0 \/ order[i] >= inDims}
    IN  IF inDims # Len(order)
        THEN Fail("Shuffle for permute must has the same number of dimensions as the input tensor.", <<>>)
        ELSE IF faults # {}
        THEN Fail("All shuffle dimensions must be less than the rank of the input.", <<>>)
        ELSE Ok(<<tt>>)

\* aten::permute
permute(variableMetas) ==
    IF Len(variableMetas) # 2
    THEN Fail("Expected two inputs shapes, got %zu.", <<Len(variableMetas)>>)
    ELSE IF ~IsTensorShape(variableMetas[1]) THEN Throw
    ELSE
    LET tt == ShapeOf(variableMetas[1])
        inDims == Len(tt)
        order == variableMetas[2].intValue
        faults == {i \in 1..Len(order) : order[i] < 0 \/ order[i] >= inDims}
    IN  IF inDims # Len(order)
        THEN Fail("Shuffle for permute must has the same number of dimensions as the input tensor.", <<>>)
        ELSE IF faults # {}
        THEN IF order[CHOOSE i \in faults : \A k \in faults : i <= k] < 0
             THEN Fail("Negative shuffle dimensions not supported by Glow yet.", <<>>)
             ELSE Fail("All shuffle dimensions must be less than the rank of the input.", <<>>)
        ELSE Ok(<<[i \in 1..Len(order) |-> tt[order[i] + 1]]>>)

\* whether the embedding-bag operators count a trailing end offset
\* ("In glow, the include_last_offset is always True")
hasEndOffset_ == TRUE

EndOffset == IF hasEndOffset_ THEN 1 ELSE 0

\* aten::embedding_bag
embeddingBag(variableMetas) ==
    IF Len(variableMetas) # 8
    THEN Fail("Expected 8 inputs, got %zu.", <<Len(variableMetas)>>)
    ELSE IF \E i \in 1..3 : ~IsTensorShape(variableMetas[i]) THEN Throw
    ELSE
    LET t0 == ShapeOf(variableMetas[1])
        t1 == ShapeOf(variableMetas[2])
        t2 == ShapeOf(variableMetas[3])
    IN  IF Len(t1) = 1
        THEN IF Len(t2) # 1
             THEN Fail("Expected 1D offset, got %zu.", <<Len(t2)>>)
             ELSE IF Len(t0) < 2 THEN Undefined
             ELSE Ok(<< <<t2[1] - EndOffset, t0[2]>> >>)
        ELSE IF Len(t1) = 2
        THEN IF Len(t0) < 2 THEN Undefined
             ELSE Ok(<< <<t1[1], t0[2]>> >>)
        ELSE Fail("Only support 1D and 2D Input in Embedding bag.", <<>>)

\* fb::embedding_bag_byte_rowwise_offsets
embeddingBagByteRowwiseOffsets(variableMetas) ==
    IF Len(variableMetas) # 8
    THEN Fail("Expected 8 inputs, got %zu.", <<Len(variableMetas)>>)
    ELSE IF ~IsTensorShape(variableMetas[1]) \/ ~IsTensorShape(variableMetas[3])
    THEN Throw
    ELSE
    LET t0 == ShapeOf(variableMetas[1])
        t2 == ShapeOf(variableMetas[3])
    IN  IF Len(t2) < 1 \/ Len(t0) < 2 THEN Undefined
        ELSE Ok(<< <<t2[1] - EndOffset, t0[2] - 8>> >>)

\* quantized::embedding_bag_4bit_rowwise_offsets
embeddingBag4BitRowwiseOffsets(variableMetas) ==
    IF Len(variableMetas) # 9
    THEN Fail("Expected 9 inputs, got %zu.", <<Len(variableMetas)>>)
    ELSE IF ~IsTensorShape(variableMetas[1]) \/ ~IsTensorShape(variableMetas[3])
    THEN Throw
    ELSE
    LET weightShape == ShapeOf(variableMetas[1])
        offsetsShape == ShapeOf(variableMetas[3])
    IN  IF Len(offsetsShape) < 1 \/ Len(weightShape) < 2 THEN Undefined
        ELSE Ok(<< <<offsetsShape[1] - EndOffset, (weightShape[2] - 4) * 2>> >>)

\* aten::stack
stack_(variableMetas) ==
    IF Len(variableMetas) # 2
    THEN Fail("Expected 2 input, got %zu.", <<Len(variableMetas)>>)
    ELSE IF ~IsTensorListShape(variableMetas[1]) THEN Throw
    ELSE
    LET shapes == ShapesOf(variableMetas[1])
    IN  IF Len(shapes) = 0 \/ Len(variableMetas[2].intValue) = 0 THEN Undefined
        ELSE
        LET shape == shapes[1]
            rawDim == variableMetas[2].intValue[1]
            inDims == Len(shape)
        IN  IF ~WrapOk(rawDim, inDims) THEN Throw
            ELSE IF \E i \in 2..Len(shapes) : shape # shapes[i]
            THEN Fail("All tensors need to be of the same shape.", <<>>)
            ELSE Ok(<<InsertAt(shape, maybe_wrap_dim(rawDim, inDims), Len(shapes))>>)

\* glow::fused_stack
fusedStack(variableMetas, rawDim) ==
    IF ~(Len(variableMetas) >= 1)
    THEN Fail("Expected at least 1 inputs, got %zu.", <<Len(variableMetas)>>)
    ELSE IF ~IsTensorShape(variableMetas[1]) THEN Throw
    ELSE
    LET shape == ShapeOf(variableMetas[1])
        inDims == Len(shape)
        notShape == {i \in 1..Len(variableMetas) : ~IsTensorShape(variableMetas[i])}
        differs == {i \in 1..Len(variableMetas) :
                        IsTensorShape(variableMetas[i])
                        /\ ShapeOf(variableMetas[i]) # shape}
        stops == notShape \cup differs
    IN  IF Len(variableMetas) = 1 THEN Ok(<<shape>>)
        ELSE IF ~WrapOk(rawDim, inDims + 1) THEN Throw
        ELSE IF stops # {}
        THEN IF (CHOOSE i \in stops : \A k \in stops : i <= k) \in notShape
             THEN Throw
             ELSE Fail("All inputs must have same shape", <<>>)
        ELSE Ok(<<InsertAt(shape, maybe_wrap_dim(rawDim, inDims + 1),
                           Len(variableMetas))>>)

\* the shapes of the list handed out last to first
listUnpackReversed(variableMetas) ==
    IF Len(variableMetas) # 1
    THEN Fail("Expected 1 input, got %zu.", <<Len(variableMetas)>>)
    ELSE IF ~IsTensorListShape(variableMetas[1]) THEN Throw
    ELSE Ok([i \in 1..Len(ShapesOf(variableMetas[1])) |->
                ShapesOf(variableMetas[1])[Len(ShapesOf(variableMetas[1])) + 1 - i]])

\* prim::ListUnpack
listUnpack(variableMetas) ==
    IF Len(variableMetas) # 1
    THEN Fail("Expected 1 input, got %zu.", <<Len(variableMetas)>>)
    ELSE IF ~IsTensorListShape(variableMetas[1]) THEN Throw
    ELSE Ok(ShapesOf(variableMetas[1]))

\* 0-based index of the first -1 of target, the loop's negIndex (-1: none)
reshapeNegIndex(target) ==
    IF \E i \in 1..Len(target) : target[i] = -1
    THEN (CHOOSE i \in 1..Len(target) :
              target[i] = -1 /\ \A k \in 1..(i - 1) : target[k] # -1) - 1
    ELSE -1

\* the quotient without the sign change
reshapeInferredUnsigned(s0, s1) == TruncDiv(s0, s1)

\* the extent reshape writes into the -1 slot
reshapeInferred(s0, s1) == TruncDiv(-s0, s1)

\* aten::reshape
reshape(variableMetas) ==
    IF Len(variableMetas) # 2
    THEN Fail("Expected two inputs shapes, got %zu.", <<Len(variableMetas)>>)
    ELSE IF ~IsTensorShape(variableMetas[1]) THEN Throw
    ELSE
    LET tt == ShapeOf(variableMetas[1])
        target == variableMetas[2].intValue
        s0 == Product(tt)
        s1 == Product(target)
        negIndex == reshapeNegIndex(target)
    IN  IF Cardinality({i \in 1..Len(target) : target[i] = -1}) >= 2
        THEN Fail("Unable to infer undetermined dimension", <<>>)
        ELSE IF s1 = 0 THEN Undefined
        ELSE IF TruncMod(s0, s1) # 0
        THEN Fail("Reshape size is invalid for input size.", <<>>)
        ELSE IF negIndex # -1
        THEN Ok(<<[target EXCEPT ![negIndex + 1] = reshapeInferred(s0, s1)]>>)
        ELSE Ok(<<target>>)

\* prim::Constant: the shape, or the value, by the type of the output
primConstant(node) ==
    Ok(<< CASE node.type = "Float" -> <<1>>
            [] node.type = "Int" -> <<node.value[1]>>
            [] node.type = "Bool" -> <<node.value[1]>>
            [] node.type = "None" -> <<>>
            [] node.type = "Tensor" -> node.value
            [] OTHER -> <<>> >>)

\* prim::ListConstruct
listConstruct(variableMetas) ==
    IF Len(variableMetas) < 1
    THEN Fail("Expected at least 1 inputs, got %zu.", <<Len(variableMetas)>>)
    ELSE IF Len(variableMetas[1].intValue) = 1
    THEN IF \E i \in 1..Len(variableMetas) : Len(variableMetas[i].intValue) # 1
         THEN Fail("Expected int type input in listConstruct.", <<>>)
         ELSE Ok(<<[i \in 1..Len(variableMetas) |-> variableMetas[i].intValue[1]]>>)
    ELSE IF \E i \in 1..Len(variableMetas) : ~IsTensorShape(variableMetas[i])
    THEN Throw
    ELSE Ok([i \in 1..Len(variableMetas) |-> ShapeOf(variableMetas[i])])

----------------------------------------------------------------------------
(* Operator dispatcher: shapeOnNode *)

\* getNodeInputShape: the records of the node's inputs (each is in the map:
\* the graphs are in definition order)
getNodeInputShape(map, node) ==
    [i \in 1..Len(node.inputs) |-> map[node.inputs[i]]]

\* the message without the kind
unsupportedOperatorUnnamed(kind) ==
    Fail("Node's operator is not supported", <<>>)

\* the default of the switch on the kind
unsupportedOperator(kind) ==
    Fail("Node's operator " \o kind \o " is not supported", <<>>)

\* the shape function of the node's kind applied to inputMetas: the
\* symbols compared by name come first, then the switch on the kind
Dispatch(node, inputMetas, g) ==
    CASE node.kind = "glow::fused_stack" -> fusedStack(inputMetas, node.dim)
      [] node.kind \in {"fb::embedding_bag_byte_rowwise_offsets",
                        "quantized::embedding_bag_byte_rowwise_offsets"} ->
             embeddingBagByteRowwiseOffsets(inputMetas)
      [] node.kind = "quantized::embedding_bag_4bit_rowwise_offsets" ->
             embeddingBag4BitRowwiseOffsets(inputMetas)
      [] node.kind = "prim::Constant" -> primConstant(node)
      [] node.kind \in {"aten::tanh", "aten::relu", "aten::sigmoid"} ->
             unaryOp(inputMetas)
      [] node.kind \in {"aten::sub", "aten::pow", "aten::mul", "aten::add"} ->
             binaryOp(inputMetas, g)
      [] node.kind = "aten::mm" -> mm(inputMetas)
      [] node.kind = "aten::addmm" -> addmm(inputMetas, g)
      [] node.kind = "aten::bmm" -> bmm(inputMetas)
      [] node.kind = "aten::t" -> t(inputMetas)
      [] node.kind = "aten::transpose" -> transpose(inputMetas)
      [] node.kind = "aten::flatten" -> flatten(inputMetas)
      [] node.kind = "prim::FusedConcat" -> fusedConcat(inputMetas, node.dim)
      [] node.kind = "prim::ConstantChunk" ->
             constantChunk(inputMetas, node.chunks, node.dim)
      [] node.kind = "aten::chunk" -> chunk(inputMetas)
      [] node.kind = "prim::ListConstruct" -> listConstruct(inputMetas)
      [] node.kind = "aten::slice" -> slice(inputMetas)
      [] node.kind = "aten::reshape" -> reshape(inputMetas)
      [] node.kind = "aten::cat" -> cat(inputMetas)
      [] node.kind = "aten::permute" -> permute(inputMetas)
      [] node.kind = "aten::embedding_bag" -> embeddingBag(inputMetas)
      [] node.kind = "aten::stack" -> stack_(inputMetas)
      [] node.kind = "prim::ListUnpack" -> listUnpack(inputMetas)
      [] OTHER -> unsupportedOperator(node.kind)

\* the default packaging: output i gets outputShapesOrValues[i]
RECURSIVE PutOutputs(_, _, _, _)
PutOutputs(map, node, out, i) ==
    IF i > Len(node.outputs) THEN map
    ELSE PutOutputs(EmplaceShape(map, node.outputs[i], TS(out[i])), node, out, i + 1)

\* "Put output into map" with [length] as the shape of a Scalar[] or Bool[]
PutIntoMapFlatList(map, node, out) ==
    CASE node.kind = "prim::Constant" ->
             IF node.type = "Tensor"
             THEN EmplaceShape(map, node.outputs[1], TS(out[1]))
             ELSE AssignInt(EmplaceShape(map, node.outputs[1], TS(<<1>>)),
                            node.outputs[1], out[1])
      [] node.kind = "prim::ListConstruct" ->
             IF node.type \in {"Tensor", "Optional[Tensor]"}
             THEN EmplaceShape(map, node.outputs[1], TLS(out))
             ELSE AssignInt(EmplaceShape(map, node.outputs[1],
                                         TS(<<Len(out[1])>>)),
                            node.outputs[1], out[1])
      [] node.kind = "aten::embedding_bag" ->
             EmplaceShape(map, node.outputs[1], TS(out[1]))
      [] node.kind = "aten::chunk" ->
             EmplaceShape(map, node.outputs[1], TLS(out))
      [] OTHER -> PutOutputs(map, node, out, 1)

\* "Put output into map"
PutIntoMap(map, node, out) ==
    CASE node.kind = "prim::Constant" ->
             IF node.type = "Tensor"
             THEN EmplaceShape(map, node.outputs[1], TS(out[1]))
             ELSE AssignInt(EmplaceShape(map, node.outputs[1], TS(<<1>>)),
                            node.outputs[1], out[1])
      [] node.kind = "prim::ListConstruct" ->
             IF node.type \in {"Tensor", "Optional[Tensor]"}
             THEN EmplaceShape(map, node.outputs[1], TLS(out))
             ELSE AssignInt(EmplaceShape(map, node.outputs[1],
                                         TS(<<Len(out[1]), 1>>)),
                            node.outputs[1], out[1])
      [] node.kind = "aten::embedding_bag" ->
             EmplaceShape(map, node.outputs[1], TS(out[1]))
      [] node.kind = "aten::chunk" ->
             EmplaceShape(map, node.outputs[1], TLS(out))
      [] OTHER -> PutOutputs(map, node, out, 1)

\* shapeOnNode: the outcome of the shape function and the map afterwards
\* whether the packaging reads an element outputShapesOrValues does not have
PutOutOfRange(node, out) ==
    CASE node.kind \in {"prim::Constant", "prim::ListConstruct",
                        "aten::embedding_bag"} -> Len(out) < 1
      [] node.kind = "aten::chunk" -> FALSE
      [] OTHER -> Len(out) < Len(node.outputs)

shapeOnNode(map, node, g) ==
    LET r == Dispatch(node, getNodeInputShape(map, node), g)
    IN  IF r.kind = "ok" /\ PutOutOfRange(node, r.out)
        THEN [res |-> Undefined, map |-> map]
        ELSE [res |-> r,
              map |-> IF r.kind = "ok" THEN PutIntoMap(map, node, r.out) ELSE map]

----------------------------------------------------------------------------
(* Input seeding: getGraphInputShape *)

SupportedInput(input) == input.kind \in {"Tensor", "Bool", "Int", "IntList"}

\* the int-list placeholder written as [length] instead of [length, 1]
seedRecordFlatList(input) ==
    CASE input.kind = "Tensor" -> Meta(<<TS(input.sizes)>>, <<>>)
      [] input.kind \in {"Bool", "Int"} -> Meta(<<TS(<<1>>)>>, <<toInt(input)>>)
      [] input.kind = "IntList" -> Meta(<<TS(<<Len(input.ints)>>)>>, input.ints)

\* the shape and intValue getGraphInputShape derives from one example value
seedRecord(input) ==
    CASE input.kind = "Tensor" -> Meta(<<TS(input.sizes)>>, <<>>)
      [] input.kind \in {"Bool", "Int"} -> Meta(<<TS(<<1>>)>>, <<toInt(input)>>)
      [] input.kind = "IntList" ->
             Meta(<<TS(<<Len(input.ints), 1>>)>>, input.ints)

\* the loop over the example values from index i on: it stops at the first
\* value of an unsupported kind, the earlier ones stay stored
RECURSIVE seedFrom(_, _, _, _)
seedFrom(map, gIn, inputs, i) ==
    IF i > Len(inputs) THEN [map |-> map, err |-> NoErr]
    ELSE IF ~SupportedInput(inputs[i])
    THEN [map |-> map, err |-> MakeErr("Input type doesn't support yet.", <<>>)]
    ELSE LET rec == seedRecord(inputs[i])
         IN  seedFrom(AssignInt(EmplaceShape(map, gIn[i], rec.listOfShape[1]),
                                gIn[i], rec.intValue),
                      gIn, inputs, i + 1)

getGraphInputShape(map, g, inputs) == seedFrom(map, Graphs[g].inputs, inputs, 1)

----------------------------------------------------------------------------
(* Graph walker: runRecursively *)

Top == stack[Len(stack)]

\* the node the innermost frame is at
CurrentNode == Graphs[Top.g].nodes[Top.pc]

AtNode == stack # <<>> /\ Top.pc <= Len(Graphs[Top.g].nodes)

\* the frame on top moved to its next node
Advance(stk) == [stk EXCEPT ![Len(stk)].pc = @ + 1]

\* the caller replacing the error by one of its own
returnErrWrapped(err) == MakeErr("Shape inference failed", <<>>)

\* RETURN_IF_ERR: the error goes to the caller as it is
returnErr(err) == err

\* whether it->second.shape<TensorShape>() returns for every input of the
\* fusion node
canMaterialize(map, node) ==
    \A i \in 1..Len(node.inputs) : IsTensorShape(map[node.inputs[i]])

\* every empty tensor made from the record of the first input
subgraphInputsFirst(map, node) ==
    [i \in 1..Len(node.inputs) |-> TorchEmpty(ShapeOf(map[node.inputs[1]]))]

\* subgraphInputs: one empty tensor per input of the fusion node, of the
\* shape recorded for it
subgraphInputs(map, node) ==
    [i \in 1..Len(node.inputs) |-> TorchEmpty(ShapeOf(map[node.inputs[i]]))]

\* shapeMap_[node->outputs()[i]] = shapeMap_[subgraph->outputs()[i]], from
\* position i on; both operator[] create a missing record
RECURSIVE copyFrom(_, _, _, _)
copyFrom(map, outer, inner, i) ==
    IF i > Len(inner) THEN map
    ELSE LET rec == MetaAt(map, inner[i])
         IN  copyFrom(Store(Store(map, inner[i], rec), outer[i], rec),
                      outer, inner, i + 1)

\* the copy written as a move: the record of the Subgraph output is left empty
copyOutputsMoved(map, node, sub) ==
    LET inner == Graphs[sub].outputs
        copied == copyFrom(map, node.outputs, inner, 1)
    IN  [v \in DOMAIN copied |->
            IF \E i \in 1..Len(inner) : inner[i] = v THEN EmptyMeta ELSE copied[v]]

copyOutputs(map, node, sub) == copyFrom(map, node.outputs, Graphs[sub].outputs, 1)

\* generateGraphOutputShape: the records of the graph outputs are appended
generateGraphOutputShape(outs, map, g) ==
    outs \o [i \in 1..Len(Graphs[g].outputs) |-> map[Graphs[g].outputs[i]]]

\* the check written with <= : fewer example inputs than graph inputs pass
arityOkAtMost(g, inputs) == Len(inputs) <= Len(Graphs[g].inputs)

\* run(): the check of the number of example inputs
arityOk(g, inputs) == Len(inputs) = Len(Graphs[g].inputs)

\* run() with a wrong number of example inputs
RunArityError ==
    /\ status # "running"
    /\ runs < MaxRuns
    /\ ~arityOk(graph_, inputs_)
    /\ runs' = runs + 1
    /\ status' = "error"
    /\ result' = MakeErr("Number of inputs mismatch between Graph and actual inputs", <<>>)
    /\ dispatched' = <<>>
    /\ failedAt' = <<>>
    /\ stack' = <<>>
    /\ UNCHANGED <<graph_, inputs_, shapeMap_, outputShape_, opVars>>

\* run() enters runRecursively(graph_, inputs_) and seeds the graph inputs
\* (nothing is known of an engine once its behaviour was undefined)
RunStart ==
    /\ status \notin {"running", "undefined"}
    /\ runs < MaxRuns
    /\ arityOk(graph_, inputs_)
    /\ runs' = runs + 1
    /\ dispatched' = <<>>
    /\ failedAt' = <<>>
    /\ LET seeded == getGraphInputShape(shapeMap_, graph_, inputs_)
       IN  /\ shapeMap_' = seeded.map
           /\ IF seeded.err = NoErr
              THEN /\ status' = "running"
                   /\ result' = NoErr
                   /\ stack' = <<[g |-> graph_, pc |-> 1]>>
              ELSE /\ status' = "error"
                   /\ result' = returnErr(seeded.err)
                   /\ stack' = <<>>
    /\ UNCHANGED <<graph_, inputs_, outputShape_, opVars>>

\* the loop body for a node without a Subgraph: shapeOnNode(node)
VisitNode ==
    /\ status = "running"
    /\ AtNode
    /\ CurrentNode.subgraph = 0
    /\ \E g \in Garbage :
         LET r == shapeOnNode(shapeMap_, CurrentNode, g)
         IN  /\ shapeMap_' = r.map
             /\ dispatched' = Append(dispatched, <<Top.g, Top.pc>>)
             /\ IF r.res.kind = "ok"
                THEN /\ stack' = Advance(stack)
                     /\ UNCHANGED <<status, result, failedAt>>
                ELSE /\ status' = CASE r.res.kind = "err" -> "error"
                                     [] r.res.kind = "throw" -> "threw"
                                     [] OTHER -> "undefined"
                     /\ result' = returnErr(r.res.err)
                     /\ failedAt' = stack
                     /\ stack' = <<>>
    /\ UNCHANGED <<graph_, inputs_, outputShape_, runs, opVars>>

\* the loop body for a fusion node, up to the entry into its Subgraph
EnterSubgraph ==
    /\ status = "running"
    /\ AtNode
    /\ CurrentNode.subgraph # 0
    /\ IF ~canMaterialize(shapeMap_, CurrentNode)
       THEN /\ status' = "threw"
            /\ failedAt' = stack
            /\ stack' = <<>>
            /\ UNCHANGED <<shapeMap_, result>>
       ELSE LET sub == CurrentNode.subgraph
                seeded == getGraphInputShape(shapeMap_, sub,
                                             subgraphInputs(shapeMap_, CurrentNode))
            IN  /\ shapeMap_' = seeded.map
                /\ IF seeded.err = NoErr
                   THEN /\ stack' = Append(stack, [g |-> sub, pc |-> 1])
                        /\ UNCHANGED <<status, result, failedAt>>
                   ELSE /\ status' = "error"
                        /\ result' = returnErr(seeded.err)
                        /\ failedAt' = stack
                        /\ stack' = <<>>
    /\ UNCHANGED <<graph_, inputs_, outputShape_, dispatched, runs, opVars>>

\* the recursive call returned success: the outputs of the Subgraph are
\* copied to the outputs of the fusion node
ReturnFromSubgraph ==
    /\ status = "running"
    /\ Len(stack) >= 2
    /\ ~AtNode
    /\ LET caller == SubSeq(stack, 1, Len(stack) - 1)
           node == Graphs[caller[Len(caller)].g].nodes[caller[Len(caller)].pc]
       IN  /\ shapeMap_' = copyOutputs(shapeMap_, node, Top.g)
           /\ stack' = Advance(caller)
    /\ UNCHANGED <<graph_, inputs_, outputShape_, status, result, dispatched,
                   failedAt, runs, opVars>>

\* runRecursively(graph_, inputs_) returned success: run() extracts the
\* graph outputs and returns
RunFinish ==
    /\ status = "running"
    /\ Len(stack) = 1
    /\ ~AtNode
    /\ outputShape_' = generateGraphOutputShape(outputShape_, shapeMap_, graph_)
    /\ status' = "ok"
    /\ result' = NoErr
    /\ stack' = <<>>
    /\ UNCHANGED <<graph_, inputs_, shapeMap_, dispatched, failedAt, runs, opVars>>

Init ==
    /\ graph_ \in TopGraphs
    /\ inputs_ \in SeqsOf(ExampleValues, 0, MaxInputs)
    /\ shapeMap_ = <<>>
    /\ outputShape_ = <<>>
    /\ status = "idle"
    /\ result = NoErr
    /\ stack = <<>>
    /\ dispatched = <<>>
    /\ failedAt = <<>>
    /\ runs = 0
    /\ opName = ""
    /\ opIn = <<>>
    /\ opOut = NoOut

Next ==
    \/ RunArityError
    \/ RunStart
    \/ VisitNode
    \/ EnterSubgraph
    \/ ReturnFromSubgraph
    \/ RunFinish

Spec == Init /\ [][Next]_vars

----------------------------------------------------------------------------
(* Properties of the engine facade, the walker and the dispatcher *)

Range(f) == {f[i] : i \in DOMAIN f}

Last(sq) == sq[Len(sq)]

\* the node of a frame or of an entry of dispatched
NodeOf(g, pc) == Graphs[g].nodes[pc]

\* every Value of a graph and of the Subgraphs below it
RECURSIVE GraphValues(_)
GraphValues(g) ==
    Range(Graphs[g].inputs) \cup
    UNION { Range(Graphs[g].nodes[j].outputs) \cup
            (IF Graphs[g].nodes[j].subgraph # 0
             THEN GraphValues(Graphs[g].nodes[j].subgraph) ELSE {})
            : j \in 1..Len(Graphs[g].nodes) }

\* the Values a node defines: its outputs and all Values of its Subgraph
NodeValues(n) ==
    Range(n.outputs) \cup (IF n.subgraph # 0 THEN GraphValues(n.subgraph) ELSE {})

\* all fusion nodes of the graphs
FusionNodes ==
    UNION { { Graphs[g].nodes[j] :
                j \in {k \in 1..Len(Graphs[g].nodes) : Graphs[g].nodes[k].subgraph # 0} }
            : g \in 1..Len(Graphs) }

ArityMismatch == Len(inputs_) # Len(Graphs[graph_].inputs)

\* C1: run() with a number of example inputs different from the graph's
\* input count returns the arity error and seeds nothing: the Value Map
\* stays empty, no node is visited and the graph-output list stays empty.
C1_ArityErrorSeedsNothing ==
    ArityMismatch =>
        /\ DOMAIN shapeMap_ = {}
        /\ dispatched = <<>>
        /\ outputShape_ = <<>>
        /\ status \in {"idle", "error"}
        /\ runs >= 1 =>
             /\ status = "error"
             /\ result.msg = "Number of inputs mismatch between Graph and actual inputs"

C1_Witness == ArityMismatch /\ runs >= 1 /\ Len(inputs_) >= 1

\* C2: after any sequence of run() calls, the graph-output list holds
\* exactly one record per graph output, in output order, each equal to the
\* record the Value Map holds for that output.
C2_OutputsOfLastRun ==
    status = "ok" =>
        outputShape_ = [i \in 1..Len(Graphs[graph_].outputs) |->
                            shapeMap_[Graphs[graph_].outputs[i]]]

SeedExpected(iv) ==
    CASE iv.kind = "Tensor" -> [listOfShape |-> <<TS(iv.sizes)>>, intValue |-> <<>>]
      [] iv.kind \in {"Bool", "Int"} ->
             [listOfShape |-> <<TS(<<1>>)>>, intValue |-> <<iv.ints[1]>>]
      [] iv.kind = "IntList" ->
             [listOfShape |-> <<TS(<<Len(iv.ints), 1>>)>>, intValue |-> iv.ints]

SeedSupported(iv) == iv.kind \in {"Tensor", "Bool", "Int", "IntList"}

C5_FailureStopsWalk ==
    (status = "error" /\ failedAt # <<>>) =>
        LET N == Last(failedAt)
            node == NodeOf(N.g, N.pc)
        IN  /\ dispatched # <<>>
            /\ Last(dispatched) = <<N.g, N.pc>>
            /\ result # NoErr
            /\ \E g \in Garbage :
                 LET r == Dispatch(node, getNodeInputShape(shapeMap_, node), g)
                 IN  r.kind = "err" /\ result = r.err
            /\ stack = <<>>
            /\ runs = 1 =>
                 /\ outputShape_ = <<>>
                 /\ \A k \in 1..Len(failedAt) :
                      LET f == failedAt[k]
                      IN  /\ \A o \in Range(NodeOf(f.g, f.pc).outputs) :
                                o \notin DOMAIN shapeMap_
                          /\ \A j \in (f.pc + 1)..Len(Graphs[f.g].nodes) :
                                NodeValues(NodeOf(f.g, j)) \cap DOMAIN shapeMap_ = {}

C5_Witness ==
    /\ status = "error"
    /\ Len(failedAt) = 3
    /\ runs = 1

\* C6: once a fusion node has been processed, the record of outer output i
\* is the record of Subgraph output i, and Subgraph input i was seeded with
\* the shape recorded for outer input i; a fusion node around mm(x, y) with
\* outer inputs [4,5] and [5,6] gets the output shape [4,6].
C6_FusionCopyBack ==
    runs = 1 =>
        /\ \A n \in FusionNodes :
             LET sub == Graphs[n.subgraph]
             IN  /\ \A i \in 1..Len(sub.inputs) :
                       sub.inputs[i] \in DOMAIN shapeMap_ =>
                           /\ IsTensorShape(shapeMap_[sub.inputs[i]])
                           /\ ShapeOf(shapeMap_[sub.inputs[i]]) =
                                  ShapeOf(shapeMap_[n.inputs[i]])
                 /\ \A i \in 1..Len(n.outputs) :
                       n.outputs[i] \in DOMAIN shapeMap_ =>
                           /\ sub.outputs[i] \in DOMAIN shapeMap_
                           /\ shapeMap_[n.outputs[i]] = shapeMap_[sub.outputs[i]]
        /\ (graph_ = 1 /\ inputs_ = <<Tensor(<<4, 5>>), Tensor(<<5, 6>>)>>
               /\ status = "ok") =>
             /\ shapeMap_[3] = [listOfShape |-> <<TS(<<4, 6>>)>>, intValue |-> <<>>]
             /\ shapeMap_[3] = shapeMap_[7]

C6_Witness ==
    /\ graph_ = 1
    /\ inputs_ = <<Tensor(<<4, 5>>), Tensor(<<5, 6>>)>>
    /\ status = "ok"
    /\ runs = 1

\* a record that is a plain tensor shape: one single shape, no payload
PlainTensorRecord(meta) == IsTensorShape(meta) /\ meta.intValue = <<>>

\* C7: the walk never recurses into the Subgraph of a fusion node one of
\* whose outer inputs has a record that is not a plain tensor shape.
C7_NonTensorFusionInputFails ==
    \A k \in 2..Len(stack) :
        LET n == NodeOf(stack[k - 1].g, stack[k - 1].pc)
        IN  \A i \in 1..Len(n.inputs) : PlainTensorRecord(shapeMap_[n.inputs[i]])

\* the kinds shapeOnNode has a case for
CatalogKinds ==
    { "glow::fused_stack", "fb::embedding_bag_byte_rowwise_offsets",
      "quantized::embedding_bag_byte_rowwise_offsets",
      "quantized::embedding_bag_4bit_rowwise_offsets", "prim::Constant",
      "aten::tanh", "aten::relu", "aten::sigmoid", "aten::sub", "aten::pow",
      "aten::mul", "aten::add", "aten::mm", "aten::addmm", "aten::bmm",
      "aten::t", "aten::transpose", "aten::flatten", "prim::FusedConcat",
      "prim::ConstantChunk", "aten::chunk", "prim::ListConstruct",
      "aten::slice", "aten::reshape", "aten::cat", "aten::permute",
      "aten::embedding_bag", "aten::stack", "prim::ListUnpack" }

\* C8: a dispatched node whose kind is outside the catalog ends the run
\* with the unsupported-operator error naming the kind, and no output of
\* that node gets a record.
C8_UnsupportedOperator ==
    \A k \in 1..Len(dispatched) :
        LET n == NodeOf(dispatched[k][1], dispatched[k][2])
        IN  n.kind \notin CatalogKinds =>
                /\ k = Len(dispatched)
                /\ status = "error"
                /\ result = MakeErr("Node's operator " \o n.kind \o " is not supported", <<>>)
                /\ runs = 1 => \A o \in Range(n.outputs) : o \notin DOMAIN shapeMap_

C8_Witness ==
    /\ status = "error"
    /\ dispatched # <<>>
    /\ NodeOf(Last(dispatched)[1], Last(dispatched)[2]).kind = "aten::foo"

----------------------------------------------------------------------------
(* Shape functions applied on their own to bounded inputs *)

\* tensor shapes with extents lo..hi and rank up to r
Shapes(lo, hi, r) == SeqsOf(lo..hi, 0, r)

\* the engine is left as constructed
EngineUntouched ==
    /\ graph_ = 1
    /\ inputs_ = <<>>
    /\ shapeMap_ = <<>>
    /\ outputShape_ = <<>>
    /\ status = "idle"
    /\ result = NoErr
    /\ stack = <<>>
    /\ dispatched = <<>>
    /\ failedAt = <<>>
    /\ runs = 0

InitBinaryOp ==
    /\ EngineUntouched
    /\ opName = "binaryOp"
    /\ opIn \in { <<seedRecord(Tensor(a)), seedRecord(Tensor(b))>> :
                    a \in Shapes(1, MaxExtent, MaxRank),
                    b \in Shapes(1, MaxExtent, MaxRank) }
    /\ opOut = NoOut

ApplyBinaryOp ==
    /\ opName = "binaryOp"
    /\ opOut = NoOut
    /\ \E g \in Garbage : opOut' = binaryOp(opIn, g)
    /\ UNCHANGED <<engineVars, opName, opIn>>

NextBinaryOp == ApplyBinaryOp

SpecBinaryOp == InitBinaryOp /\ [][NextBinaryOp]_vars

\* reshape targets: -1 or a positive extent at each position
Targets == SeqsOf({-1} \cup (1..MaxExtent), 1, MaxTarget)

InitReshape ==
    /\ EngineUntouched
    /\ opName = "reshape"
    /\ opIn \in { <<seedRecord(Tensor(a)), seedRecord(IntListVal(tg))>> :
                    a \in Shapes(0, MaxExtent, MaxReshapeRank), tg \in Targets }
    /\ opOut = NoOut

ApplyReshape ==
    /\ opName = "reshape"
    /\ opOut = NoOut
    /\ opOut' = reshape(opIn)
    /\ UNCHANGED <<engineVars, opName, opIn>>

NextReshape == ApplyReshape

SpecReshape == InitReshape /\ [][NextReshape]_vars

\* extent of shape s at distance i from its trailing end, 1 when exhausted
TrailingExtent(s, i) == IF i < Len(s) THEN s[Len(s) - i] ELSE 1

BroadcastCompatible(A, B) ==
    \A i \in 0..(Min(Len(A), Len(B)) - 1) :
        \/ TrailingExtent(A, i) = TrailingExtent(B, i)
        \/ TrailingExtent(A, i) = 1
        \/ TrailingExtent(B, i) = 1

\* the standard trailing-dimension broadcast of two compatible shapes
BroadcastShape(A, B) ==
    LET dim == Max(Len(A), Len(B))
    IN  [k \in 1..dim |->
            IF TrailingExtent(A, dim - k) = 1
            THEN TrailingExtent(B, dim - k)
            ELSE TrailingExtent(A, dim - k)]

\* C9: for broadcast-compatible shapes A and B binaryOp([A, B]) returns the
\* standard trailing-dimension broadcast shape, and for shapes with two
\* different non-1 extents at a trailing position it fails with the
\* size-mismatch error.
C9_BinaryOpBroadcast ==
    (opName = "binaryOp" /\ opOut # NoOut) =>
        LET A == ShapeOf(opIn[1])
            B == ShapeOf(opIn[2])
        IN  IF BroadcastCompatible(A, B)
            THEN opOut.kind = "ok" /\ opOut.out = <<BroadcastShape(A, B)>>
            ELSE opOut.kind = "err"

\* number of -1 entries of a target
NegCount(tg) == Cardinality({i \in 1..Len(tg) : tg[i] = -1})

\* product of the entries of a target other than -1
RECURSIVE KnownProduct(_)
KnownProduct(tg) ==
    IF tg = <<>> THEN 1
    ELSE (IF Head(tg) = -1 THEN 1 ELSE Head(tg)) * KnownProduct(Tail(tg))

----------------------------------------------------------------------------
(* prim::ConstantChunk and aten::chunk on their own: opIn holds the tensor, *)
(* the chunk count and the axis (attributes of the node for ConstantChunk,  *)
(* int inputs for chunk)                                                    *)

InitChunk ==
    /\ EngineUntouched
    /\ opName \in {"constantChunk", "chunk"}
    /\ opIn \in { <<seedRecord(Tensor(a)), seedRecord(IntVal(k)), seedRecord(IntVal(d))>> :
                    a \in Shapes(0, MaxExtent, MaxSplitRank),
                    k \in 1..MaxChunks,
                    d \in (-(MaxSplitRank + 1))..MaxSplitRank }
    /\ opOut = NoOut

ApplyConstantChunk ==
    /\ opName = "constantChunk"
    /\ opOut = NoOut
    /\ opOut' = constantChunk(<<opIn[1]>>, opIn[2].intValue[1], opIn[3].intValue[1])
    /\ UNCHANGED <<engineVars, opName, opIn>>

ApplyChunk ==
    /\ opName = "chunk"
    /\ opOut = NoOut
    /\ opOut' = chunk(opIn)
    /\ UNCHANGED <<engineVars, opName, opIn>>

NextChunk ==
    \/ ApplyConstantChunk
    \/ ApplyChunk

SpecChunk == InitChunk /\ [][NextChunk]_vars

\* d is an axis of a tensor of rank n, counted from either end
AxisInRange(d, n) == n >= 1 /\ d >= -n /\ d <= n - 1

\* the axis d of a tensor of rank n counted from the front (0-based)
PythonAxis(d, n) == IF d < 0 THEN d + n ELSE d

\* the least c with c * k >= e
CeilDiv(e, k) == CHOOSE c \in 0..e : c * k >= e /\ (c = 0 \/ (c - 1) * k < e)

\* C11: constantChunk(A, chunks = k, dim = d) with k >= 1 returns exactly k
\* shapes that equal A in every dimension other than d (d wrapped
\* Python-style), whose dim-d extents sum to A.shape[d], every chunk but the
\* last having the dim-d extent ceil(A.shape[d] / k) and the last an extent
\* not larger than that.
C11_ConstantChunk ==
    (opName = "constantChunk" /\ opOut # NoOut) =>
        LET A == ShapeOf(opIn[1])
            k == opIn[2].intValue[1]
            d == opIn[3].intValue[1]
            n == Len(A)
            w == PythonAxis(d, n) + 1
        IN  AxisInRange(d, n) =>
              /\ opOut.kind = "ok"
              /\ Len(opOut.out) = k
              /\ \A i \in 1..k :
                    /\ Len(opOut.out[i]) = n
                    /\ \A j \in (1..n) \ {w} : opOut.out[i][j] = A[j]
              /\ SumAt(opOut.out, w - 1, 1) = A[w]
              /\ \A i \in 1..(k - 1) : opOut.out[i][w] = CeilDiv(A[w], k)
              /\ opOut.out[k][w] <= CeilDiv(A[w], k)

C11_Witness ==
    /\ opName = "constantChunk"
    /\ opOut.kind = "ok"
    /\ ShapeOf(opIn[1]) = <<2, 3>>
    /\ opIn[2].intValue = <<2>>
    /\ opIn[3].intValue = <<-1>>
    /\ opOut.out = << <<2, 2>>, <<2, 1>> >>

\* C12: for every extent >= 0 and chunk count >= 1 the extent of the last
\* chunk, extent - c * (chunks - 1) with c = ceil(extent / chunks), is never
\* negative; and chunk returns the same list of shapes as constantChunk for
\* the same tensor shape, chunk count and axis.
C12_LastChunkNotNegative ==
    (opName \in {"constantChunk", "chunk"} /\ opOut # NoOut) =>
        LET A == ShapeOf(opIn[1])
            k == opIn[2].intValue[1]
            d == opIn[3].intValue[1]
            n == Len(A)
            w == PythonAxis(d, n) + 1
        IN  /\ AxisInRange(d, n) =>
                 /\ opOut.kind = "ok"
                 /\ opOut.out[k][w] >= 0
            /\ opName = "chunk" => opOut = constantChunk(<<opIn[1]>>, k, d)

\* the second half of C12 on its own: chunk and constantChunk agree
ChunkAgreesWithConstantChunk ==
    (opName = "chunk" /\ opOut # NoOut) =>
        opOut = constantChunk(<<opIn[1]>>, opIn[2].intValue[1], opIn[3].intValue[1])

----------------------------------------------------------------------------
(* aten::slice on its own: opIn holds the tensor and the int inputs dim,    *)
(* start, end and step                                                      *)

SliceStack(a, d, st, en, sp) ==
    << seedRecord(Tensor(a)), seedRecord(IntVal(d)), seedRecord(IntVal(st)),
       seedRecord(IntVal(en)), seedRecord(IntVal(sp)) >>

InitSlice ==
    /\ EngineUntouched
    /\ opName = "slice"
    /\ opIn \in { SliceStack(a, d, st, en, sp) :
                    a \in Shapes(0, MaxExtent, MaxSplitRank),
                    d \in (-1)..MaxSplitRank,
                    st \in (-MaxIndex)..MaxIndex,
                    en \in (-MaxIndex)..MaxIndex,
                    sp \in 1..MaxStep }
               \cup { SliceStack(<<10>>, 0, 8, 20, 1), SliceStack(<<10>>, 0, 12, 20, 1) }
    /\ opOut = NoOut

ApplySlice ==
    /\ opName = "slice"
    /\ opOut = NoOut
    /\ opOut' = slice(opIn)
    /\ UNCHANGED <<engineVars, opName, opIn>>

NextSlice == ApplySlice

SpecSlice == InitSlice /\ [][NextSlice]_vars

\* the extent a slice leaves of an axis of extent e
SlicedExtent(e, start, end, step) ==
    IF start >= e \/ end <= -e THEN 0
    ELSE LET from == IF start <= -e THEN 0
                     ELSE IF start < 0 THEN start + e
                     ELSE start
             to == IF end > e THEN e
                   ELSE IF end < 0 THEN end + e
                   ELSE end
         IN  IF from >= to THEN 0 ELSE CeilDiv(to - from, step)

\* C13: slice(dim, start, end, step) with step >= 1 changes only the extent
\* at dim; the new extent is 0 when start >= extent or end <= -extent, else,
\* with start and end clamped or wrapped into [0, extent], 0 when
\* start >= end and ceil((end - start) / step) otherwise.  It lies in
\* [0, extent]; for shape [10], slice(0, 8, 20, 1) leaves 2 and
\* slice(0, 12, 20, 1) leaves 0.
C13_Slice ==
    (opName = "slice" /\ opOut # NoOut) =>
        LET A == ShapeOf(opIn[1])
            dim == opIn[2].intValue[1]
            start == opIn[3].intValue[1]
            end == opIn[4].intValue[1]
            step == opIn[5].intValue[1]
        IN  /\ (dim >= 0 /\ dim < Len(A)) =>
                 /\ opOut.kind = "ok"
                 /\ Len(opOut.out) = 1
                 /\ Len(opOut.out[1]) = Len(A)
                 /\ \A j \in (1..Len(A)) \ {dim + 1} : opOut.out[1][j] = A[j]
                 /\ opOut.out[1][dim + 1] = SlicedExtent(A[dim + 1], start, end, step)
                 /\ opOut.out[1][dim + 1] \in 0..A[dim + 1]
            /\ (A = <<10>> /\ dim = 0 /\ start = 8 /\ end = 20 /\ step = 1) =>
                 opOut.out = << <<2>> >>
            /\ (A = <<10>> /\ dim = 0 /\ start = 12 /\ end = 20 /\ step = 1) =>
                 opOut.out = << <<0>> >>

C13_Witness ==
    /\ opName = "slice"
    /\ opOut.kind = "ok"
    /\ ShapeOf(opIn[1]) = <<2, 3>>
    /\ opIn[2].intValue = <<1>>
    /\ opIn[3].intValue = <<-3>>
    /\ opIn[4].intValue = <<4>>
    /\ opIn[5].intValue = <<2>>
    /\ opOut.out = << <<2, 2>> >>

----------------------------------------------------------------------------
(* aten::transpose, fb::embedding_bag_byte_rowwise_offsets and aten::stack  *)
(* on MetaStacks that may be malformed: a wrong number of inputs, an axis   *)
(* that cannot be wrapped, a weight or offsets shape too short, an empty    *)
(* tensor list                                                              *)

\* the record of a Value that holds a list of tensor shapes
ListRecord(ss) == Meta(<<TLS(ss)>>, <<>>)

Axes == (-(MaxSplitRank + 1))..(MaxSplitRank + 1)

TransposeStacks ==
    { <<seedRecord(Tensor(a)), seedRecord(IntVal(d0)), seedRecord(IntVal(d1))>> :
        a \in Shapes(1, MaxExtent, MaxSplitRank), d0 \in Axes, d1 \in Axes }
    \cup { <<seedRecord(Tensor(a)), seedRecord(IntVal(d0))>> :
             a \in Shapes(1, MaxExtent, MaxSplitRank), d0 \in Axes }

\* weight, indices, offsets, then the five remaining inputs (all but
\* per_sample_weights are ints or bools)
EmbeddingBagStacks ==
    { <<seedRecord(Tensor(w)), seedRecord(Tensor(<<2>>)), seedRecord(Tensor(o)),
        seedRecord(BoolVal(FALSE)), seedRecord(IntVal(0)), seedRecord(BoolVal(FALSE)),
        seedRecord(Tensor(<<2>>))>> \o tail :
        w \in Shapes(1, MaxExtent, MaxSplitRank),
        o \in Shapes(1, MaxExtent, MaxSplitRank),
        tail \in {<<>>, <<seedRecord(BoolVal(TRUE))>>} }

StackStacks ==
    { <<ListRecord(ss), seedRecord(IntVal(d))>> :
        ss \in SeqsOf(Shapes(1, MaxExtent, MaxSplitRank), 0, 2), d \in Axes }
    \cup { <<ListRecord(ss)>> : ss \in SeqsOf(Shapes(1, MaxExtent, MaxSplitRank), 0, 2) }

InitMalformed ==
    /\ EngineUntouched
    /\ \/ opName = "transpose" /\ opIn \in TransposeStacks
       \/ opName = "embeddingBagByteRowwiseOffsets" /\ opIn \in EmbeddingBagStacks
       \/ opName = "stack" /\ opIn \in StackStacks
    /\ opOut = NoOut

ApplyTranspose ==
    /\ opName = "transpose"
    /\ opOut = NoOut
    /\ opOut' = transpose(opIn)
    /\ UNCHANGED <<engineVars, opName, opIn>>

ApplyEmbeddingBagByteRowwiseOffsets ==
    /\ opName = "embeddingBagByteRowwiseOffsets"
    /\ opOut = NoOut
    /\ opOut' = embeddingBagByteRowwiseOffsets(opIn)
    /\ UNCHANGED <<engineVars, opName, opIn>>

ApplyStack ==
    /\ opName = "stack"
    /\ opOut = NoOut
    /\ opOut' = stack_(opIn)
    /\ UNCHANGED <<engineVars, opName, opIn>>

NextMalformed ==
    \/ ApplyTranspose
    \/ ApplyEmbeddingBagByteRowwiseOffsets
    \/ ApplyStack

SpecMalformed == InitMalformed /\ [][NextMalformed]_vars

\* d cannot be wrapped into an axis of a tensor of rank n (a rank-0 tensor
\* takes -1 and 0)
AxisNotWrappable(d, n) ==
    LET m == IF n = 0 THEN 1 ELSE n IN d < -m \/ d > m - 1

\* the MetaStack does not fit the operator: arity, axis, rank or list length
Malformed ==
    CASE opName = "transpose" ->
             \/ Len(opIn) # 3
             \/ AxisNotWrappable(opIn[2].intValue[1], Len(ShapeOf(opIn[1])))
             \/ AxisNotWrappable(opIn[3].intValue[1], Len(ShapeOf(opIn[1])))
      [] opName = "embeddingBagByteRowwiseOffsets" ->
             \/ Len(opIn) # 8
             \/ Len(ShapeOf(opIn[1])) < 2
             \/ Len(ShapeOf(opIn[3])) < 1
      [] opName = "stack" ->
             \/ Len(opIn) # 2
             \/ Len(ShapesOf(opIn[1])) = 0
             \/ AxisNotWrappable(opIn[2].intValue[1], Len(ShapesOf(opIn[1])[1]) + 1)
      [] OTHER -> FALSE

\* C14: a shape function given a MetaStack with the wrong number of inputs,
\* an axis outside the wrappable range, a weight or offsets shape too short
\* to index, or an empty tensor list returns a typed failure: it does not
\* throw, abort or read outside a shape.
C14_MalformedGivesTypedFailure ==
    (opName \in {"transpose", "embeddingBagByteRowwiseOffsets", "stack"}
     /\ opOut # NoOut /\ Malformed) => opOut.kind = "err"

\* the part of C14 that holds: a wrong number of inputs is a typed failure
WrongArityGivesTypedFailure ==
    (opOut # NoOut
     /\ \/ opName = "transpose" /\ Len(opIn) # 3
        \/ opName = "embeddingBagByteRowwiseOffsets" /\ Len(opIn) # 8
        \/ opName = "stack" /\ Len(opIn) # 2) => opOut.kind = "err"

----------------------------------------------------------------------------
(* Records of the Value Map, and lists constructed and unpacked *)

\* the nodes of all graphs
AllNodes == UNION { Range(Graphs[g].nodes) : g \in DOMAIN Graphs }

\* Values written by a non-tensor prim::Constant
ScalarConstants ==
    { n.outputs[1] : n \in {m \in AllNodes : m.kind = "prim::Constant" /\ m.type # "Tensor"} }

\* Values written by a prim::ListConstruct of a Scalar[] or Bool[]
ScalarLists ==
    { n.outputs[1] : n \in {m \in AllNodes : m.kind = "prim::ListConstruct"
                                              /\ m.type \notin {"Tensor", "Optional[Tensor]"}} }

\* the example value given for the graph input v of the engine's graph
ExampleOf(v) ==
    inputs_[CHOOSE i \in 1..Len(Graphs[graph_].inputs) : Graphs[graph_].inputs[i] = v]

\* C15: every Value Record of the Value Map has a non-empty list of shape
\* entries, and every record with an integer payload has the placeholder as
\* its first shape entry: [1] for a scalar or bool (graph input or
\* non-tensor constant), [count, 1] for an integer list (graph input or
\* non-tensor list construct), never an empty shape.
C15_PlaceholderShapes ==
    status # "undefined" =>
      \A v \in DOMAIN shapeMap_ :
        LET m == shapeMap_[v]
        IN  /\ Len(m.listOfShape) >= 1
            /\ m.intValue # <<>> =>
                 /\ IsTensorShape(m)
                 /\ ShapeOf(m) # <<>>
                 /\ ShapeOf(m) \in {<<1>>, <<Len(m.intValue), 1>>}
            /\ (m.intValue # <<>> /\ v \in ScalarConstants) => ShapeOf(m) = <<1>>
            /\ (m.intValue # <<>> /\ v \in ScalarLists) =>
                 ShapeOf(m) = <<Len(m.intValue), 1>>
            /\ (m.intValue # <<>> /\ v \in Range(Graphs[graph_].inputs)) =>
                 /\ ExampleOf(v).kind \in {"Int", "Bool", "IntList"}
                 /\ ExampleOf(v).kind \in {"Int", "Bool"} => ShapeOf(m) = <<1>>
                 /\ ExampleOf(v).kind = "IntList" =>
                      ShapeOf(m) = <<Len(ExampleOf(v).ints), 1>>

C15_Witness ==
    /\ graph_ = 11
    /\ status = "ok"
    /\ runs = 2
    /\ shapeMap_[40].intValue = <<3>>
    /\ shapeMap_[41].intValue = <<2>>
    /\ shapeMap_[42].intValue = <<2, 3>>
    /\ ShapeOf(shapeMap_[42]) = <<2, 1>>

\* the graphs made of a tensor list construct and the unpack of its list
UnpackGraphs ==
    { g \in DOMAIN Graphs :
        /\ Len(Graphs[g].nodes) = 2
        /\ Graphs[g].nodes[1].kind = "prim::ListConstruct"
        /\ Graphs[g].nodes[2].kind = "prim::ListUnpack"
        /\ Graphs[g].nodes[2].inputs = Graphs[g].nodes[1].outputs
        /\ Len(Graphs[g].nodes[2].outputs) = Len(Graphs[g].nodes[1].inputs) }

\* C18: for a list construct over N >= 1 tensor Values followed by a list
\* unpack with N outputs, once both nodes are dispatched the record of
\* unpack output i holds exactly the shape of construct input i, in the same
\* order, and the list Value holds one list-of-shapes entry with those N
\* shapes (in a traversal by a fresh engine).
C18_UnpackInvertsConstruct ==
    (/\ graph_ \in UnpackGraphs
     /\ runs = 1
     /\ dispatched = <<<<graph_, 1>>, <<graph_, 2>>>>
     /\ \A i \in 1..Len(inputs_) : inputs_[i].kind = "Tensor") =>
        LET construct == Graphs[graph_].nodes[1]
            unpack == Graphs[graph_].nodes[2]
            N == Len(construct.inputs)
        IN  /\ status \in {"running", "ok"}
            /\ \A i \in 1..N :
                  /\ unpack.outputs[i] \in DOMAIN shapeMap_
                  /\ shapeMap_[unpack.outputs[i]].listOfShape
                       = <<TS(ShapeOf(shapeMap_[construct.inputs[i]]))>>
                  /\ shapeMap_[unpack.outputs[i]].listOfShape
                       = <<TS(ExampleOf(construct.inputs[i]).sizes)>>
            /\ shapeMap_[construct.outputs[1]].listOfShape
                 = <<TLS([i \in 1..N |-> ShapeOf(shapeMap_[construct.inputs[i]])])>>

C18_Witness ==
    /\ graph_ = 10
    /\ runs = 1
    /\ status = "ok"
    /\ inputs_ = <<Tensor(<<4, 5>>), Tensor(<<5, 6>>)>>
    /\ ShapeOf(shapeMap_[38]) = <<4, 5>>
    /\ ShapeOf(shapeMap_[39]) = <<5, 6>>
    /\ ShapesOf(shapeMap_[37]) = << <<4, 5>>, <<5, 6>> >>

----------------------------------------------------------------------------
(* aten::permute on its own: opIn holds the tensor and the int list order *)

PermuteStack(a, o) == <<seedRecord(Tensor(a)), seedRecord(IntListVal(o))>>

InitPermute ==
    /\ EngineUntouched
    /\ opName = "permute"
    /\ opIn \in { PermuteStack(a, o) :
                    a \in Shapes(1, MaxExtent, MaxSplitRank),
                    o \in SeqsOf((-1)..MaxSplitRank, 0, MaxSplitRank) }
               \cup { PermuteStack(<<2, 3, 4>>, <<2, 0, 1>>) }
    /\ opOut = NoOut

ApplyPermute ==
    /\ opName = "permute"
    /\ opOut = NoOut
    /\ opOut' = permute(opIn)
    /\ UNCHANGED <<engineVars, opName, opIn>>

NextPermute == ApplyPermute

SpecPermute == InitPermute /\ [][NextPermute]_vars

\* C16: permute(A, order) fails when the length of order differs from A's
\* rank and when an axis in order is negative or >= rank; otherwise output
\* extent i is A's extent at order[i]; [2,3,4] with order [2,0,1] gives
\* [4,2,3].
C16_Permute ==
    (opName = "permute" /\ opOut # NoOut) =>
        LET A == ShapeOf(opIn[1])
            order == opIn[2].intValue
            outOfRange == \E i \in 1..Len(order) : order[i] < 0 \/ order[i] >= Len(A)
        IN  /\ Len(order) # Len(A) => opOut.kind = "err"
            /\ outOfRange => opOut.kind = "err"
            /\ (Len(order) = Len(A) /\ ~outOfRange) =>
                 /\ opOut.kind = "ok"
                 /\ Len(opOut.out) = 1
                 /\ Len(opOut.out[1]) = Len(A)
                 /\ \A i \in 1..Len(A) : opOut.out[1][i] = A[order[i] + 1]
            /\ (A = <<2, 3, 4>> /\ order = <<2, 0, 1>>) => opOut.out = << <<4, 2, 3>> >>

C16_Witness ==
    /\ opName = "permute"
    /\ opOut.kind = "ok"
    /\ ShapeOf(opIn[1]) = <<2, 3, 4>>
    /\ opIn[2].intValue = <<2, 0, 1>>
    /\ opOut.out = << <<4, 2, 3>> >>

----------------------------------------------------------------------------
(* aten::cat and prim::FusedConcat on the same shapes: opIn holds the list  *)
(* Value and the axis as cat takes them; fusedConcat gets the shapes as     *)
(* positional inputs and the axis as its dim attribute                      *)

ConcatStack(ss, d) == <<ListRecord(ss), seedRecord(IntVal(d))>>

\* the MetaStack of a FusedConcat node over the same tensors
Positional(ss) == [i \in 1..Len(ss) |-> seedRecord(Tensor(ss[i]))]

InitConcat ==
    /\ EngineUntouched
    /\ opName \in {"cat", "fusedConcat"}
    /\ opIn \in { ConcatStack(ss, d) :
                    ss \in SeqsOf(Shapes(1, MaxConcatExtent, MaxSplitRank), 1, MaxList),
                    d \in Axes }
               \cup { ConcatStack(<< <<2, 3>>, <<2, 3>> >>, 1) }
    /\ opOut = NoOut

ApplyCat ==
    /\ opName = "cat"
    /\ opOut = NoOut
    /\ opOut' = cat(opIn)
    /\ UNCHANGED <<engineVars, opName, opIn>>

ApplyFusedConcat ==
    /\ opName = "fusedConcat"
    /\ opOut = NoOut
    /\ opOut' = fusedConcat(Positional(ShapesOf(opIn[1])), opIn[2].intValue[1])
    /\ UNCHANGED <<engineVars, opName, opIn>>

NextConcat ==
    \/ ApplyCat
    \/ ApplyFusedConcat

SpecConcat == InitConcat /\ [][NextConcat]_vars

\* two shapes that cannot be concatenated along the 0-based axis w
ConcatMismatch(a, b, w) ==
    \/ Len(a) # Len(b)
    \/ \E j \in 1..Len(a) : j # w + 1 /\ a[j] # b[j]

\* what the claim says of the outcome r for the shapes ss and the axis d
ConcatAsClaimed(r, ss, d) ==
    IF Len(ss) = 1 THEN r.kind = "ok" /\ r.out = <<ss[1]>>
    ELSE LET n == Len(ss[1])
             w == IF d < 0 THEN d + n ELSE d
         IN  IF \E i \in 2..Len(ss) : ConcatMismatch(ss[1], ss[i], w)
             THEN r.kind = "err"
             ELSE /\ r.kind = "ok"
                  /\ Len(r.out) = 1
                  /\ Len(r.out[1]) = n
                  /\ \A j \in 1..n :
                        r.out[1][j] = IF j = w + 1 THEN SumAt(ss, w, 1) ELSE ss[1][j]

\* C17: for every non-empty sequence of tensor shapes and every axis cat and
\* fused concat return the same outcome: the single shape for one element;
\* otherwise a failure if the ranks differ or a non-concat dimension differs
\* between two elements, else the first shape with the extent at the wrapped
\* axis replaced by the sum of the extents at that axis.
C17_CatIsFusedConcat ==
    (opName \in {"cat", "fusedConcat"} /\ opOut # NoOut) =>
        LET ss == ShapesOf(opIn[1])
            d == opIn[2].intValue[1]
            other == IF opName = "cat" THEN fusedConcat(Positional(ss), d)
                     ELSE cat(opIn)
        IN  /\ opOut.kind = other.kind
            /\ opOut.out = other.out
            /\ (Len(ss) = 1 \/ ~AxisNotWrappable(d, Len(ss[1]))) =>
                  ConcatAsClaimed(opOut, ss, d)

\* the part of C17 that holds: tensors of rank >= 1 and an axis of theirs
ConcatOfRankedTensors ==
    (opName \in {"cat", "fusedConcat"} /\ opOut # NoOut) =>
        LET ss == ShapesOf(opIn[1])
            d == opIn[2].intValue[1]
            other == IF opName = "cat" THEN fusedConcat(Positional(ss), d)
                     ELSE cat(opIn)
        IN  (Len(ss) = 1 \/ AxisInRange(d, Len(ss[1]))) =>
              /\ opOut.kind = other.kind
              /\ opOut.out = other.out
              /\ ConcatAsClaimed(opOut, ss, d)

----------------------------------------------------------------------------
(* Number of elements under aten::reshape *)

\* C19: whenever reshape(A, target) succeeds, for a target of positive
\* extents with or without a -1 entry, the product of the returned extents
\* equals the product of A's extents.
C19_ReshapeKeepsElementCount ==
    (opName = "reshape" /\ opOut # NoOut /\ opOut.kind = "ok") =>
        Product(opOut.out[1]) = Product(ShapeOf(opIn[1]))

\* the part of C19 that holds: targets with a -1 entry
ReshapeInferredKeepsElementCount ==
    (opName = "reshape" /\ opOut # NoOut /\ opOut.kind = "ok"
     /\ NegCount(opIn[2].intValue) = 1) =>
        Product(opOut.out[1]) = Product(ShapeOf(opIn[1]))

====
